---- MODULE Spec2Model ----
(***************************************************************************)
(* Software rendering pipeline of SpaceTravel: the Framebuffer             *)
(* (src/framebuffer.rs), the render function and main loop (src/main.rs)   *)
(* and the fragment shader dispatch (src/shaders.rs).                      *)
(***************************************************************************)
EXTENDS Integers, Sequences, FiniteSets, TLC

VARIABLES
  framebuffer,           \* the Framebuffer of main
  lastOp, calls,         \* history of the Framebuffer calls
  sh, sh_out,            \* arguments and result of a fragment_shader call
  vertex_array, transformed_vertices, triangles, stage,
                         \* render's vertex and primitive assembly stages
  render_shader_type, frags_left, lastFrag,
                         \* render's shader argument and fragment loop
  pc, current_planet, time, vertex_arrays, rings_vertex_arrays, render_no,
                         \* main: position, locals
  frame_events,          \* calls made in the current loop iteration
  cam_in, camera,        \* arguments and result of a Camera::new call
  writes, todo           \* a set of framebuffer writes, those not yet issued

fbvars == <<framebuffer, lastOp, calls>>
shvars == <<sh, sh_out>>
asmvars == <<vertex_array, transformed_vertices, triangles, stage>>
fragvars == <<render_shader_type, frags_left, lastFrag>>
mainvars == <<pc, current_planet, time, vertex_arrays, rings_vertex_arrays,
              render_no, frame_events>>
camvars == <<cam_in, camera>>
ordvars == <<writes, todo>>
vars == <<framebuffer, lastOp, calls, sh, sh_out,
          vertex_array, transformed_vertices, triangles, stage,
          render_shader_type, frags_left, lastFrag,
          pc, current_planet, time, vertex_arrays, rings_vertex_arrays,
          render_no, frame_events, cam_in, camera, writes, todo>>

(***************************************************************************)
(* Bounds of the model.                                                    *)
(***************************************************************************)
\* framebuffer_width / framebuffer_height of main, scaled down
Width == 2
Height == 1
\* finite depth values are 0..MaxDepth
MaxDepth == 1
\* in-bounds point calls recorded per frame
MaxCalls == 2

(***************************************************************************)
(* f32 depth values: the finite values 0..MaxDepth, +infinity and NaN.     *)
(* Every comparison with NaN is false.                                     *)
(***************************************************************************)
INFINITY == MaxDepth + 1
NAN == MaxDepth + 2
Depths == (0..MaxDepth) \cup {INFINITY, NAN}

FGt(a, b) == a # NAN /\ b # NAN /\ a > b
FLt(a, b) == FGt(b, a)
FGe(a, b) == a # NAN /\ b # NAN /\ a >= b

(***************************************************************************)
(* Packed u32 colours used by the program.                                 *)
(***************************************************************************)
BACKGROUND_COLOR == 1381653  \* 0x151515
WHITE == 16777215            \* 0xFFFFFF
FFDDDD == 16768477           \* 0xFFDDDD
DARK == 0                    \* vec![0; ...]

DrawColors == {WHITE, FFDDDD}
BackgroundColors == {BACKGROUND_COLOR, DARK}
StarColors == {WHITE}

Pixels == 0 .. (Width * Height - 1)

(***************************************************************************)
(* struct Framebuffer and its operations, as functions on the record.      *)
(* panicked models the panic of a bounds-checked Vec index.                *)
(***************************************************************************)
FramebufferNew ==
  [ width |-> Width, height |-> Height,
    buffer |-> [i \in Pixels |-> DARK],
    zbuffer |-> [i \in Pixels |-> INFINITY],
    background_color |-> BACKGROUND_COLOR,
    current_color |-> WHITE,
    background_buffer |-> [i \in Pixels |-> BACKGROUND_COLOR],
    panicked |-> FALSE ]

\* mutant: clear fills the colour buffer with the flat background colour
clear_flat(fb) ==
  [fb EXCEPT !.buffer = [i \in DOMAIN fb.buffer |-> fb.background_color],
             !.zbuffer = [i \in DOMAIN fb.zbuffer |-> INFINITY]]

clear(fb) ==
  [fb EXCEPT !.buffer = fb.background_buffer,
             !.zbuffer = [i \in DOMAIN fb.zbuffer |-> INFINITY]]

\* mutant: the depth of an accepted write is not stored
point_nodepth(fb, x, y, depth) ==
  IF x < fb.width /\ y < fb.height
  THEN LET index == y * fb.width + x IN
       IF index \notin DOMAIN fb.zbuffer
       THEN [fb EXCEPT !.panicked = TRUE]
       ELSE IF FGt(fb.zbuffer[index], depth)
            THEN [fb EXCEPT !.buffer[index] = fb.current_color]
            ELSE fb
  ELSE fb

\* mutant: the depth test accepts equal depths
point_ge(fb, x, y, depth) ==
  IF x < fb.width /\ y < fb.height
  THEN LET index == y * fb.width + x IN
       IF index \notin DOMAIN fb.zbuffer
       THEN [fb EXCEPT !.panicked = TRUE]
       ELSE IF FGe(fb.zbuffer[index], depth)
            THEN [fb EXCEPT !.buffer[index] = fb.current_color,
                            !.zbuffer[index] = depth]
            ELSE fb
  ELSE fb

\* mutant: the bounds check is off by one in x
point_offbyone(fb, x, y, depth) ==
  IF x <= fb.width /\ y < fb.height
  THEN LET index == y * fb.width + x IN
       IF index \notin DOMAIN fb.zbuffer
       THEN [fb EXCEPT !.panicked = TRUE]
       ELSE IF FGt(fb.zbuffer[index], depth)
            THEN [fb EXCEPT !.buffer[index] = fb.current_color,
                            !.zbuffer[index] = depth]
            ELSE fb
  ELSE fb

\* mutant: the write is stored without the depth test
point_notest(fb, x, y, depth) ==
  IF x < fb.width /\ y < fb.height
  THEN LET index == y * fb.width + x IN
       IF index \notin DOMAIN fb.zbuffer
       THEN [fb EXCEPT !.panicked = TRUE]
       ELSE [fb EXCEPT !.buffer[index] = fb.current_color,
                       !.zbuffer[index] = depth]
  ELSE fb

point(fb, x, y, depth) ==
  IF x < fb.width /\ y < fb.height
  THEN LET index == y * fb.width + x IN
       IF index \notin DOMAIN fb.zbuffer
       THEN [fb EXCEPT !.panicked = TRUE]
       ELSE IF FGt(fb.zbuffer[index], depth)
            THEN [fb EXCEPT !.buffer[index] = fb.current_color,
                            !.zbuffer[index] = depth]
            ELSE fb
  ELSE fb

set_background_color(fb, color) == [fb EXCEPT !.background_color = color]

set_current_color(fb, color) == [fb EXCEPT !.current_color = color]

\* mutant: the star is painted into the frame's colour buffer as well
set_background_star_both(fb, x, y, color) ==
  IF x < fb.width /\ y < fb.height
  THEN LET index == y * fb.width + x IN
       IF index \notin DOMAIN fb.background_buffer
       THEN [fb EXCEPT !.panicked = TRUE]
       ELSE [fb EXCEPT !.background_buffer[index] = color,
                       !.buffer[index] = color]
  ELSE fb

set_background_star(fb, x, y, color) ==
  IF x < fb.width /\ y < fb.height
  THEN LET index == y * fb.width + x IN
       IF index \notin DOMAIN fb.background_buffer
       THEN [fb EXCEPT !.panicked = TRUE]
       ELSE [fb EXCEPT !.background_buffer[index] = color]
  ELSE fb

(***************************************************************************)
(* Specification Spec: any sequence of Framebuffer calls.                  *)
(* lastOp records the last call and its arguments; calls records the       *)
(* in-bounds point calls made since the last clear.                        *)
(***************************************************************************)
NoOp == [op |-> "new", x |-> 0, y |-> 0, d |-> 0, c |-> 0, dirty |-> FALSE]

InBounds(x, y) == x < Width /\ y < Height

FbInit ==
  /\ framebuffer = FramebufferNew
  /\ lastOp = NoOp
  /\ calls = {}

ShIdle == sh = <<>> /\ sh_out = <<>>

AsmIdle ==
  /\ vertex_array = <<>> /\ transformed_vertices = <<>>
  /\ triangles = <<>> /\ stage = "idle"

NoFrag == <<>>

MainIdle ==
  /\ render_shader_type = "" /\ frags_left = 0 /\ lastFrag = NoFrag
  /\ pc = "idle" /\ current_planet = "None" /\ time = 0
  /\ vertex_arrays = <<>> /\ rings_vertex_arrays = <<>>
  /\ render_no = 0 /\ frame_events = <<>>

CamIdle == cam_in = <<>> /\ camera = <<>>

OrdIdle == writes = {} /\ todo = {}

Init == FbInit /\ ShIdle /\ AsmIdle /\ MainIdle /\ CamIdle /\ OrdIdle

Clear ==
  /\ UNCHANGED <<camvars, ordvars>>
  /\ ~framebuffer.panicked
  /\ UNCHANGED <<shvars, asmvars, fragvars, mainvars>>
  /\ framebuffer' = clear(framebuffer)
  /\ lastOp' = [NoOp EXCEPT !.op = "clear",
                  !.dirty = (framebuffer.buffer # framebuffer.background_buffer)]
  /\ calls' = {}

Point ==
  /\ UNCHANGED <<camvars, ordvars>>
  /\ ~framebuffer.panicked
  /\ UNCHANGED <<shvars, asmvars, fragvars, mainvars>>
  /\ \E x \in 0..Width, y \in 0..Height, d \in Depths :
       /\ InBounds(x, y) => Cardinality(calls) < MaxCalls
       /\ framebuffer' = point(framebuffer, x, y, d)
       /\ lastOp' = [NoOp EXCEPT !.op = "point", !.x = x, !.y = y, !.d = d,
                       !.c = framebuffer.current_color]
       /\ calls' = IF InBounds(x, y)
                   THEN calls \cup {[i |-> y * Width + x, d |-> d,
                                     c |-> framebuffer.current_color]}
                   ELSE calls

SetCurrentColor ==
  /\ UNCHANGED <<camvars, ordvars>>
  /\ ~framebuffer.panicked
  /\ UNCHANGED <<shvars, asmvars, fragvars, mainvars>>
  /\ \E c \in DrawColors :
       /\ framebuffer' = set_current_color(framebuffer, c)
       /\ lastOp' = [NoOp EXCEPT !.op = "set_current_color", !.c = c]
  /\ UNCHANGED calls

SetBackgroundColor ==
  /\ UNCHANGED <<camvars, ordvars>>
  /\ ~framebuffer.panicked
  /\ UNCHANGED <<shvars, asmvars, fragvars, mainvars>>
  /\ \E c \in BackgroundColors :
       /\ framebuffer' = set_background_color(framebuffer, c)
       /\ lastOp' = [NoOp EXCEPT !.op = "set_background_color", !.c = c]
  /\ UNCHANGED calls

SetBackgroundStar ==
  /\ UNCHANGED <<camvars, ordvars>>
  /\ ~framebuffer.panicked
  /\ UNCHANGED <<shvars, asmvars, fragvars, mainvars>>
  /\ \E x \in 0..Width, y \in 0..Height, c \in StarColors :
       /\ framebuffer' = set_background_star(framebuffer, x, y, c)
       /\ lastOp' = [NoOp EXCEPT !.op = "set_background_star",
                       !.x = x, !.y = y, !.c = c]
  /\ UNCHANGED calls

Next == Clear \/ Point \/ SetCurrentColor \/ SetBackgroundColor \/ SetBackgroundStar

Spec == Init /\ [][Next]_vars

(***************************************************************************)
(* Properties of the Framebuffer, over the behaviours of Spec.             *)
(***************************************************************************)
callsAt(i) == {e \in calls : e.i = i}

\* a call of S with no call of S strictly nearer
Nearest(e, S) == \A e2 \in S : ~FLt(e2.d, e.d)

\* C1 as stated: within a frame, every pixel that received an in-bounds
\* point call holds the colour of a call with the smallest depth for that
\* pixel, and its zbuffer entry holds that depth.
C1_AnyCallNearestWins ==
  \A i \in Pixels :
    callsAt(i) # {} =>
      \E e \in callsAt(i) :
        /\ Nearest(e, callsAt(i))
        /\ framebuffer.buffer[i] = e.c
        /\ framebuffer.zbuffer[i] = e.d

BelowInfinity(i) == {e \in callsAt(i) : FLt(e.d, INFINITY)}

\* C1 amended: within a frame, every pixel that received an in-bounds point
\* call with a depth below +infinity (so not NaN) holds the colour of a
\* call with the smallest such depth, and its zbuffer entry holds that depth.
C1_NearestWins ==
  \A i \in Pixels :
    BelowInfinity(i) # {} =>
      \E e \in BelowInfinity(i) :
        /\ Nearest(e, BelowInfinity(i))
        /\ framebuffer.buffer[i] = e.c
        /\ framebuffer.zbuffer[i] = e.d

\* a pixel got two calls of different depth and colour, the last one farther
C1_Witness ==
  /\ lastOp.op = "point" /\ InBounds(lastOp.x, lastOp.y)
  /\ \E e1, e2 \in callsAt(lastOp.y * Width + lastOp.x) :
       /\ FLt(e1.d, e2.d) /\ FLt(e2.d, INFINITY)
       /\ e1.c # e2.c
       /\ e2.d = lastOp.d /\ e2.c = lastOp.c
       /\ framebuffer.buffer[e1.i] = e1.c

LastIndex == lastOp.y * Width + lastOp.x

\* C2: within a frame zbuffer[i] never increases, buffer[i] changes only in
\* a point call at i whose depth is strictly below the stored depth, and a
\* point call whose depth is at or above the stored depth changes neither.
C2_Step ==
  lastOp'.op # "clear" =>
    \A i \in Pixels :
      LET isPoint == /\ lastOp'.op = "point"
                     /\ InBounds(lastOp'.x, lastOp'.y)
                     /\ lastOp'.y * Width + lastOp'.x = i
      IN /\ ~FGt(framebuffer'.zbuffer[i], framebuffer.zbuffer[i])
         /\ framebuffer'.buffer[i] # framebuffer.buffer[i] =>
              isPoint /\ FLt(lastOp'.d, framebuffer.zbuffer[i])
         /\ (isPoint /\ FGe(lastOp'.d, framebuffer.zbuffer[i])) =>
              /\ framebuffer'.buffer[i] = framebuffer.buffer[i]
              /\ framebuffer'.zbuffer[i] = framebuffer.zbuffer[i]

C2_DepthMonotone == [][C2_Step]_vars

\* a point call at the stored depth, with another colour, was rejected
C2_Witness ==
  /\ lastOp.op = "point" /\ InBounds(lastOp.x, lastOp.y)
  /\ framebuffer.zbuffer[LastIndex] = lastOp.d
  /\ FLt(lastOp.d, INFINITY)
  /\ framebuffer.buffer[LastIndex] # lastOp.c

\* C3: after clear, whatever came before, buffer equals background_buffer
\* entry by entry and every zbuffer entry is +infinity.
C3_ClearResets ==
  lastOp.op = "clear" =>
    /\ \A i \in Pixels :
         framebuffer.buffer[i] = framebuffer.background_buffer[i]
    /\ \A i \in Pixels : framebuffer.zbuffer[i] = INFINITY

\* clear ran on a drawn frame over a background that has a star
C3_Witness ==
  /\ lastOp.op = "clear" /\ lastOp.dirty
  /\ \E i \in Pixels : framebuffer.background_buffer[i] = WHITE
  /\ \E i \in Pixels : framebuffer.background_buffer[i] = BACKGROUND_COLOR

\* C4: point with x >= width or y >= height changes none of buffer,
\* zbuffer, background_buffer and does not panic.
C4_Step ==
  (lastOp'.op = "point" /\ ~InBounds(lastOp'.x, lastOp'.y)) =>
    /\ framebuffer'.buffer = framebuffer.buffer
    /\ framebuffer'.zbuffer = framebuffer.zbuffer
    /\ framebuffer'.background_buffer = framebuffer.background_buffer
    /\ ~framebuffer'.panicked

C4_OutOfBoundsIgnored == [][C4_Step]_vars

\* an out-of-bounds point call was made on a frame that has drawn pixels
C4_Witness ==
  /\ lastOp.op = "point" /\ ~InBounds(lastOp.x, lastOp.y)
  /\ \E i \in Pixels : framebuffer.zbuffer[i] # INFINITY
  /\ ~framebuffer.panicked

\* C10: set_background_star changes at most entry y*width+x of
\* background_buffer, and only for in-bounds x, y, and leaves buffer and
\* zbuffer alone; clear, point, set_current_color and set_background_color
\* change no entry of background_buffer.
C10_Step ==
  /\ lastOp'.op = "set_background_star" =>
       /\ framebuffer'.buffer = framebuffer.buffer
       /\ framebuffer'.zbuffer = framebuffer.zbuffer
       /\ \A i \in Pixels :
            framebuffer'.background_buffer[i] # framebuffer.background_buffer[i]
              => InBounds(lastOp'.x, lastOp'.y)
                 /\ i = lastOp'.y * Width + lastOp'.x
  /\ lastOp'.op \in {"clear", "point", "set_current_color", "set_background_color"} =>
       framebuffer'.background_buffer = framebuffer.background_buffer

C10_BackgroundPersistent == [][C10_Step]_vars

\* a star was painted in bounds while the frame held drawn pixels
C10_Witness ==
  /\ lastOp.op = "set_background_star" /\ InBounds(lastOp.x, lastOp.y)
  /\ framebuffer.background_buffer[LastIndex] = WHITE
  /\ calls # {}
  /\ framebuffer.buffer[LastIndex] # WHITE

(***************************************************************************)
(* Color: three channels in 0..255.  f32 scalars (intensity, noise values, *)
(* interpolation parameters) are counted in hundredths.                    *)
(***************************************************************************)
ClampChannel(v) == IF v < 0 THEN 0 ELSE IF v > 255 THEN 255 ELSE v

ColorNew(r, g, b) == <<r, g, b>>

ColorMul(c, f) == [k \in 1..3 |-> ClampChannel((c[k] * f) \div 100)]

ColorAdd(a, b) == [k \in 1..3 |-> ClampChannel(a[k] + b[k])]

ColorLerp(a, b, t) == [k \in 1..3 |-> ClampChannel(a[k] + ((b[k] - a[k]) * t) \div 100)]

ColorClamp(c) == [k \in 1..3 |-> ClampChannel(c[k])]

to_hex(c) == c[1] * 65536 + c[2] * 256 + c[3]

Abs(v) == IF v < 0 THEN 0 - v ELSE v

(***************************************************************************)
(* The shading routines of src/shaders.rs.  A fragment carries intensity,  *)
(* vertex_position.y, and the values       the routine derives from the      *)
(* fragment by sqrt, atan2, sin and dot: distance, spiral_pattern,         *)
(* diffuse_intensity, specular_intensity.  uniforms carries the values     *)
(* the noise oracle and the seeded generator return for the fragment.      *)
(***************************************************************************)
lines_shader(fragment, uniforms) ==
  LET black_or_white == IF uniforms.random_number < 50
                        THEN ColorNew(92, 137, 182)
                        ELSE ColorNew(188, 67, 67)
  IN ColorMul(black_or_white, fragment.intensity)

dalmata_shader(fragment, uniforms) ==
  LET noise_color == IF uniforms.noise < 20
                     THEN ColorNew(159, 182, 255)
                     ELSE ColorNew(30, 58, 55)
  IN ColorMul(noise_color, fragment.intensity)

cloud_shader(fragment, uniforms) ==
  LET noise_color == IF uniforms.noise > 50
                     THEN ColorNew(255, 255, 255)
                     ELSE ColorNew(30, 97, 145)
  IN ColorMul(noise_color, fragment.intensity)

cellular_shader(fragment, uniforms) ==
  LET cell_noise_value == Abs(uniforms.noise)
      final_color == IF cell_noise_value < 15 THEN ColorNew(91, 206, 219)
                     ELSE IF cell_noise_value < 70 THEN ColorNew(108, 146, 212)
                     ELSE IF cell_noise_value < 75 THEN ColorNew(69, 121, 91)
                     ELSE ColorNew(43, 0, 186)
  IN ColorMul(final_color, fragment.intensity)

lava_shader(fragment, uniforms) ==
  LET bright_color == ColorNew(255, 226, 107)
      dark_color == ColorNew(130, 20, 0)
      noise_value == (uniforms.noise + uniforms.noise2) \div 2
      color == ColorLerp(dark_color, bright_color, noise_value)
      glowing_color == ColorMul(color, 200)
      glow_edge == ColorMul(ColorNew(198, 33, 0), 100 - noise_value)
  IN ColorAdd(glowing_color, glow_edge)

gradient_shader(fragment, uniforms) ==
  LET t == (fragment.vertex_position_y + 100) \div 2
      color == ColorLerp(ColorNew(0, 0, 255), ColorNew(255, 0, 0), t)
  IN ColorMul(color, fragment.intensity)

continents_shader(fragment, uniforms) ==
  LET terrain_color == IF uniforms.noise > 14
                       THEN ColorNew(34, 139, 34)
                       ELSE ColorNew(0, 0, 255)
  IN ColorMul(terrain_color, fragment.intensity)

rings_shader(fragment, uniforms) ==
  LET distance == fragment.distance
      ring_pattern == distance \div 60
      base_color == IF (ring_pattern * 10) % 15 = 0 THEN ColorNew(0, 0, 255)
                    ELSE IF ring_pattern % 3 = 1 THEN ColorNew(192, 192, 192)
                    ELSE ColorNew(80, 200, 120)
      normalized_distance == ((distance % 60) * 100) \div 30
      opacity == IF normalized_distance < 100
                 THEN 100 - normalized_distance ELSE 0
  IN ColorMul(base_color, (opacity * fragment.intensity) \div 100)

spiral_shader(fragment, uniforms) ==
  LET final_color == IF fragment.spiral_pattern > 0
                     THEN ColorNew(62, 95, 138)
                     ELSE ColorNew(227, 228, 229)
  IN ColorMul(final_color, fragment.intensity)

spaceship_shader(fragment, uniforms) ==
  LET base_color == ColorNew(202, 107, 7)
      color == ColorAdd(ColorMul(base_color, fragment.diffuse_intensity),
                        ColorMul(ColorNew(202, 107, 7), fragment.specular_intensity))
  IN ColorClamp(color)

\* mutant: an unknown name is shaded by the first routine
fragment_shader_default(fragment, uniforms, shader_type) ==
  CASE shader_type = "dalmata_shader" -> dalmata_shader(fragment, uniforms)
    [] shader_type = "lines_shader" -> lines_shader(fragment, uniforms)
    [] shader_type = "cellular_shader" -> cellular_shader(fragment, uniforms)
    [] shader_type = "lava_shader" -> lava_shader(fragment, uniforms)
    [] shader_type = "gradient_shader" -> gradient_shader(fragment, uniforms)
    [] shader_type = "continents_shader" -> continents_shader(fragment, uniforms)
    [] shader_type = "rings_shader" -> rings_shader(fragment, uniforms)
    [] shader_type = "spiral_shader" -> spiral_shader(fragment, uniforms)
    [] shader_type = "spaceship_shader" -> spaceship_shader(fragment, uniforms)
    [] OTHER -> cloud_shader(fragment, uniforms)

fragment_shader(fragment, uniforms, shader_type) ==
  CASE shader_type = "cloud_shader" -> cloud_shader(fragment, uniforms)
    [] shader_type = "dalmata_shader" -> dalmata_shader(fragment, uniforms)
    [] shader_type = "lines_shader" -> lines_shader(fragment, uniforms)
    [] shader_type = "cellular_shader" -> cellular_shader(fragment, uniforms)
    [] shader_type = "lava_shader" -> lava_shader(fragment, uniforms)
    [] shader_type = "gradient_shader" -> gradient_shader(fragment, uniforms)
    [] shader_type = "continents_shader" -> continents_shader(fragment, uniforms)
    [] shader_type = "rings_shader" -> rings_shader(fragment, uniforms)
    [] shader_type = "spiral_shader" -> spiral_shader(fragment, uniforms)
    [] shader_type = "spaceship_shader" -> spaceship_shader(fragment, uniforms)
    [] OTHER -> ColorNew(0, 0, 0)

(***************************************************************************)
(* Specification SpecShader: fragment_shader applied to bounded inputs.    *)
(***************************************************************************)
RegisteredShaders ==
  {"cloud_shader", "dalmata_shader", "lines_shader", "cellular_shader",
   "lava_shader", "gradient_shader", "continents_shader", "rings_shader",
   "spiral_shader", "spaceship_shader"}

UnknownShaders == {"", "Lava_Shader", "lava", "shader"}

Intensities == {0, 50, 100}
NoiseValues == {-100, 0, 14, 20, 60, 72, 100}
RandomNumbers == {0, 49, 50, 100}
Distances == {0, 15, 30, 60, 75, 120, 180}

ShaderCalls(names, Is, Ys, Ds, Ss, Dfs, Sps, Ns, N2s, Rs) ==
  { [shader_type |-> n,
     fragment |-> [intensity |-> i, vertex_position_y |-> y, distance |-> d,
                   spiral_pattern |-> s, diffuse_intensity |-> df,
                   specular_intensity |-> sp],
     uniforms |-> [noise |-> nv, noise2 |-> n2, random_number |-> r]] :
    n \in names, i \in Is, y \in Ys, d \in Ds, s \in Ss, df \in Dfs,
    sp \in Sps, nv \in Ns, n2 \in N2s, r \in Rs }

ShaderInputs ==
  ShaderCalls({"lines_shader"}, Intensities, {0}, {0}, {0}, {0}, {0}, {0}, {0}, RandomNumbers)
  \cup ShaderCalls({"dalmata_shader", "cloud_shader", "cellular_shader", "continents_shader"}
                   \cup UnknownShaders,
                   Intensities, {0}, {0}, {0}, {0}, {0}, NoiseValues, {0}, {0})
  \cup ShaderCalls({"lava_shader"}, Intensities, {0}, {0}, {0}, {0}, {0}, NoiseValues, {0, 100}, {0})
  \cup ShaderCalls({"gradient_shader"}, Intensities, {-100, 0, 100}, {0}, {0}, {0}, {0}, {0}, {0}, {0})
  \cup ShaderCalls({"rings_shader"}, Intensities, {0}, Distances, {0}, {0}, {0}, {0}, {0}, {0})
  \cup ShaderCalls({"spiral_shader"}, Intensities, {0}, {0}, {-70, 0, 70}, {0}, {0}, {0}, {0}, {0})
  \cup ShaderCalls({"spaceship_shader"}, Intensities, {0}, {0}, {0}, {0, 50, 100}, {0, 100}, {0}, {0}, {0})

InitShader ==
  /\ FbInit /\ AsmIdle /\ MainIdle /\ CamIdle /\ OrdIdle
  /\ sh \in ShaderInputs
  /\ sh_out = <<>>

Shade ==
  /\ UNCHANGED <<camvars, ordvars>>
  /\ sh # <<>> /\ sh_out = <<>>
  /\ sh_out' = fragment_shader(sh.fragment, sh.uniforms, sh.shader_type)
  /\ UNCHANGED <<sh, fbvars, asmvars, fragvars, mainvars>>

NextFragment ==
  /\ UNCHANGED <<camvars, ordvars>>
  /\ sh_out # <<>>
  /\ sh' \in ShaderInputs
  /\ sh_out' = <<>>
  /\ UNCHANGED <<fbvars, asmvars, fragvars, mainvars>>

NextShader == Shade \/ NextFragment

SpecShader == InitShader /\ [][NextShader]_vars

BLACK == ColorNew(0, 0, 0)

\* C7: fragment_shader with a shader identifier that is not a registered
\* name returns exactly Color(0,0,0), for every fragment and uniforms.
C7_UnknownShaderBlack ==
  (sh_out # <<>> /\ sh.shader_type \notin RegisteredShaders) => sh_out = BLACK

\* an unknown name was shaded for a fully lit fragment
C7_Witness ==
  /\ sh_out = BLACK
  /\ sh.shader_type \in UnknownShaders
  /\ sh.fragment.intensity = 100 /\ sh.uniforms.noise = 100

\* C8: every routine reachable through fragment_shader except
\* spaceship_shader multiplies its colour by fragment.intensity as its last
\* step, so a fragment of intensity 0 is shaded black.
C8_IntensityAttenuates ==
  (/\ sh_out # <<>>
   /\ sh.shader_type \in RegisteredShaders \ {"spaceship_shader"}
   /\ sh.fragment.intensity = 0) => sh_out = BLACK

(***************************************************************************)
(* render, first stages: vertex shader and primitive assembly              *)
(* (src/main.rs, lines 117-134).  A vertex is its object-space position    *)
(* and its index in the vertex array.                                      *)
(***************************************************************************)
MaxVerts == 7
NumVertexKinds == 2

Meshes ==
  UNION { [1..n -> 1..NumVertexKinds] : n \in 0..MaxVerts }

Indexed(m) == [j \in 1..Len(m) |-> [idx |-> j - 1, position |-> m[j]]]

vertex_shader(vertex) ==
  [idx |-> vertex.idx, position |-> vertex.position, transformed |-> TRUE]

RECURSIVE PrimAsmShort(_, _)
PrimAsmShort(tv, i) ==
  IF i >= Len(tv) THEN <<>>
  ELSE (IF i + 3 < Len(tv)
        THEN << <<tv[i + 1], tv[i + 2], tv[i + 3]>> >>
        ELSE <<>>) \o PrimAsmShort(tv, i + 3)

\* mutant: the guard of the stride is i + 3 < len
primitive_assembly_short(tv) == PrimAsmShort(tv, 0)

\* for i in (0..len).step_by(3); tv[i + 1] is the source's element i
RECURSIVE PrimAsm(_, _)
PrimAsm(tv, i) ==
  IF i >= Len(tv) THEN <<>>
  ELSE (IF i + 2 < Len(tv)
        THEN << <<tv[i + 1], tv[i + 2], tv[i + 3]>> >>
        ELSE <<>>) \o PrimAsm(tv, i + 3)

primitive_assembly(tv) == PrimAsm(tv, 0)

VertexStage ==
  /\ UNCHANGED <<camvars, ordvars>>
  /\ stage = "vertex"
  /\ transformed_vertices' = [j \in 1..Len(vertex_array) |-> vertex_shader(vertex_array[j])]
  /\ stage' = "assembly"
  /\ UNCHANGED <<vertex_array, triangles, fbvars, shvars, fragvars, mainvars>>

PrimitiveAssembly ==
  /\ UNCHANGED <<camvars, ordvars>>
  /\ stage = "assembly"
  /\ triangles' = primitive_assembly(transformed_vertices)
  /\ stage' = "rasterize"
  /\ UNCHANGED <<vertex_array, transformed_vertices, fbvars, shvars, fragvars, mainvars>>

InitAssembly ==
  /\ FbInit /\ ShIdle /\ MainIdle /\ CamIdle /\ OrdIdle
  /\ vertex_array \in {Indexed(m) : m \in Meshes}
  /\ transformed_vertices = <<>>
  /\ triangles = <<>>
  /\ stage = "vertex"

NextAssembly == VertexStage \/ PrimitiveAssembly

SpecAssembly == InitAssembly /\ [][NextAssembly]_vars

\* C6: N transformed vertices are assembled into exactly floor(N/3)
\* triangles, triangle k being vertices 3k, 3k+1, 3k+2 in that order; the
\* last N mod 3 vertices are in no triangle.
C6_TriangleCount ==
  stage = "rasterize" =>
    LET N == Len(transformed_vertices) IN
    /\ Len(triangles) = N \div 3
    /\ \A k \in 0 .. (N \div 3) - 1 :
         triangles[k + 1] = <<transformed_vertices[3 * k + 1],
                              transformed_vertices[3 * k + 2],
                              transformed_vertices[3 * k + 3]>>
    /\ \A k \in 1 .. Len(triangles) : \A j \in 1..3 :
         /\ triangles[k][j].idx = 3 * (k - 1) + (j - 1)
         /\ triangles[k][j].idx < 3 * (N \div 3)

\* two triangles were assembled and a partial stride was dropped
C6_Witness ==
  /\ stage = "rasterize"
  /\ Len(transformed_vertices) = 7
  /\ Len(triangles) = 2

(***************************************************************************)
(* render, last stages (src/main.rs, lines 136-153), and main              *)
(* (src/main.rs, lines 167-271).  Fragment positions are f32 values        *)
(* counted in half pixels.                                                 *)
(***************************************************************************)
\* fragments one render call processes
MaxFrags == 2
\* num_stars of main, scaled down
NumStars == 1
\* largest value of the u32 frame counter (u32::MAX), scaled down
MaxTime == 2

FragXs == -2 .. 2 * Width
FragYs == -2 .. 2 * Height

MainFragments ==
  { [position |-> <<x, y>>, depth |-> d, intensity |-> 100,
     vertex_position_y |-> 0, distance |-> 0, spiral_pattern |-> 70,
     diffuse_intensity |-> 100, specular_intensity |-> 0] :
    x \in FragXs, y \in FragYs, d \in Depths }

MainUniforms == [noise |-> 0, noise2 |-> 0, random_number |-> 0]

\* `as usize` on an f32: truncates toward zero, negative values give 0
as_usize(h) == IF h < 0 THEN 0 ELSE h \div 2

\* the body of render's fragment loop
process_fragment(fb, fragment, uniforms, shader_type) ==
  LET x == as_usize(fragment.position[1])
      y == as_usize(fragment.position[2])
  IN IF x < fb.width /\ y < fb.height
     THEN LET shaded_color == fragment_shader(fragment, uniforms, shader_type)
              color == to_hex(shaded_color)
          IN point(set_current_color(fb, color), x, y, fragment.depth)
     ELSE fb

RECURSIVE PaintStars(_, _, _)
PaintStars(fb, stars, k) ==
  IF k > Len(stars) THEN fb
  ELSE PaintStars(set_background_star(fb, stars[k][1], stars[k][2], WHITE),
                  stars, k + 1)

\* for _ in 0..num_stars, with x and y drawn from 0..width and 0..height
render_background(fb, stars) == PaintStars(fb, stars, 1)

StarPositions == [1..NumStars -> (0 .. Width - 1) \X (0 .. Height - 1)]

Keys == {"R", "T", "Y", "U", "I", "F", "G"}

toggle(planet, target) == IF planet = target THEN "None" ELSE target

\* the planet part of handle_input: the key tests in source order
handle_input(planet, keys) ==
  LET p1 == IF "R" \in keys THEN toggle(planet, "PlainPlanet") ELSE planet
      p2 == IF "T" \in keys THEN toggle(p1, "RingPlanet") ELSE p1
      p3 == IF "Y" \in keys THEN toggle(p2, "GasGigant") ELSE p2
      p4 == IF "U" \in keys THEN toggle(p3, "GradientPlanet") ELSE p3
      p5 == IF "I" \in keys THEN toggle(p4, "LinesPlanet") ELSE p4
      p6 == IF "F" \in keys THEN toggle(p5, "Sun") ELSE p5
      p7 == IF "G" \in keys THEN toggle(p6, "DotPlanet") ELSE p6
  IN p7

\* the render calls of the match on current_planet
RenderCalls(planet) ==
  CASE planet = "PlainPlanet" -> << <<"sphere", "continents_shader">> >>
    [] planet = "RingPlanet" -> << <<"sphere", "spiral_shader">>,
                                   <<"rings", "rings_shader">> >>
    [] planet = "GasGigant" -> << <<"sphere", "cellular_shader">> >>
    [] planet = "Sun" -> << <<"sphere", "lava_shader">> >>
    [] planet = "GradientPlanet" -> << <<"sphere", "gradient_shader">> >>
    [] planet = "LinesPlanet" -> << <<"sphere", "lines_shader">> >>
    [] planet = "DotPlanet" -> << <<"sphere", "dalmata_shader">> >>
    [] OTHER -> <<>>

\* mutant: the frame is cleared after its render calls
MainNext_clearlate(done, planet, k) ==
  CASE done = "input" -> "uniforms"
    [] done = "uniforms" ->
         IF Len(RenderCalls(planet)) > 0 THEN "render" ELSE "clear"
    [] done = "render" ->
         IF k < Len(RenderCalls(planet)) THEN "render" ELSE "clear"
    [] done = "clear" -> "present"
    [] OTHER -> "loop"

\* statement order of the loop body: the position after the step done,
\* k render calls of the frame having returned
MainNext(done, planet, k) ==
  CASE done = "input" -> "clear"
    [] done = "clear" -> "uniforms"
    [] done = "uniforms" ->
         IF Len(RenderCalls(planet)) > 0 THEN "render" ELSE "present"
    [] done = "render" ->
         IF k < Len(RenderCalls(planet)) THEN "render" ELSE "present"
    [] OTHER -> "loop"

MainMeshes == {Indexed([j \in 1..n |-> 1]) : n \in {2, 3}}

InitMain ==
  /\ FbInit /\ ShIdle /\ AsmIdle /\ CamIdle /\ OrdIdle
  /\ render_shader_type = "" /\ frags_left = 0 /\ lastFrag = NoFrag
  /\ pc = "startup" /\ current_planet = "None" /\ time = 0
  /\ vertex_arrays \in MainMeshes /\ rings_vertex_arrays \in MainMeshes
  /\ render_no = 0 /\ frame_events = <<>>

\* main up to the loop: set_background_color, render_background
Startup ==
  /\ UNCHANGED <<camvars, ordvars>>
  /\ pc = "startup"
  /\ \E stars \in StarPositions :
       framebuffer' = render_background(
                        set_background_color(framebuffer, BACKGROUND_COLOR), stars)
  /\ pc' = "loop"
  /\ UNCHANGED <<lastOp, calls, shvars, asmvars, fragvars, current_planet, time,
                 vertex_arrays, rings_vertex_arrays, render_no, frame_events>>

\* while window.is_open() fails, or Escape is down
ExitLoop ==
  /\ UNCHANGED <<camvars, ordvars>>
  /\ pc = "loop"
  /\ pc' = "exit"
  /\ UNCHANGED <<fbvars, shvars, asmvars, fragvars, current_planet, time,
                 vertex_arrays, rings_vertex_arrays, render_no, frame_events>>

\* time += 1 on a u32, where the build wraps on overflow
time_increment(t) == IF t = MaxTime THEN 0 ELSE t + 1

\* time += 1; handle_input
BeginFrame ==
  /\ UNCHANGED <<camvars, ordvars>>
  /\ pc = "loop"
  /\ time' = time_increment(time)
  /\ \E keys \in SUBSET Keys :
       /\ current_planet' = handle_input(current_planet, keys)
       /\ pc' = MainNext("input", current_planet', 0)
  /\ render_no' = 0
  /\ frame_events' = <<>>
  /\ UNCHANGED <<fbvars, shvars, asmvars, fragvars, vertex_arrays,
                 rings_vertex_arrays>>

\* time += 1 where the build traps overflow: main panics
OverflowPanic ==
  /\ UNCHANGED <<camvars, ordvars>>
  /\ pc = "loop"
  /\ time = MaxTime
  /\ pc' = "panicked"
  /\ UNCHANGED <<fbvars, shvars, asmvars, fragvars, current_planet, time,
                 vertex_arrays, rings_vertex_arrays, render_no, frame_events>>

ClearFrame ==
  /\ UNCHANGED <<camvars, ordvars>>
  /\ pc = "clear"
  /\ framebuffer' = clear(framebuffer)
  /\ frame_events' = Append(frame_events, "clear")
  /\ pc' = MainNext("clear", current_planet, render_no)
  /\ UNCHANGED <<lastOp, calls, shvars, asmvars, fragvars, current_planet, time,
                 vertex_arrays, rings_vertex_arrays, render_no>>

\* the Uniforms of the frame; set_current_color(0xFFDDDD)
BuildUniforms ==
  /\ UNCHANGED <<camvars, ordvars>>
  /\ pc = "uniforms"
  /\ framebuffer' = set_current_color(framebuffer, FFDDDD)
  /\ pc' = MainNext("uniforms", current_planet, render_no)
  /\ UNCHANGED <<lastOp, calls, shvars, asmvars, fragvars, current_planet, time,
                 vertex_arrays, rings_vertex_arrays, render_no, frame_events>>

RenderCall ==
  /\ UNCHANGED <<camvars, ordvars>>
  /\ pc = "render"
  /\ LET call == RenderCalls(current_planet)[render_no + 1] IN
       /\ vertex_array' = IF call[1] = "sphere" THEN vertex_arrays
                          ELSE rings_vertex_arrays
       /\ render_shader_type' = call[2]
  /\ stage' = "vertex"
  /\ transformed_vertices' = <<>>
  /\ triangles' = <<>>
  /\ pc' = "in_render"
  /\ frame_events' = Append(frame_events, "render")
  /\ UNCHANGED <<fbvars, shvars, frags_left, lastFrag, current_planet, time,
                 vertex_arrays, rings_vertex_arrays, render_no>>

\* triangle() of each assembled triangle: some fragments, none without a triangle
Rasterize ==
  /\ UNCHANGED <<camvars, ordvars>>
  /\ stage = "rasterize"
  /\ pc = "in_render"
  /\ frags_left' \in 0 .. (IF triangles = <<>> THEN 0 ELSE MaxFrags)
  /\ stage' = "fragments"
  /\ UNCHANGED <<fbvars, shvars, vertex_array, transformed_vertices, triangles,
                 render_shader_type, lastFrag, mainvars>>

FragmentStep ==
  /\ UNCHANGED <<camvars, ordvars>>
  /\ stage = "fragments"
  /\ frags_left > 0
  /\ \E fragment \in MainFragments :
       /\ framebuffer' = process_fragment(framebuffer, fragment, MainUniforms,
                                          render_shader_type)
       /\ lastFrag' = fragment.position
  /\ frags_left' = frags_left - 1
  /\ UNCHANGED <<lastOp, calls, shvars, asmvars, render_shader_type, mainvars>>

RenderReturn ==
  /\ UNCHANGED <<camvars, ordvars>>
  /\ stage = "fragments"
  /\ frags_left = 0
  /\ stage' = "idle"
  /\ lastFrag' = NoFrag
  /\ render_no' = render_no + 1
  /\ frame_events' = Append(frame_events, "render_done")
  /\ pc' = MainNext("render", current_planet, render_no')
  /\ UNCHANGED <<fbvars, shvars, vertex_array, transformed_vertices, triangles,
                 render_shader_type, frags_left, current_planet, time,
                 vertex_arrays, rings_vertex_arrays>>

\* window.update_with_buffer(&framebuffer.buffer, ...); sleep
Present ==
  /\ UNCHANGED <<camvars, ordvars>>
  /\ pc = "present"
  /\ frame_events' = Append(frame_events, "present")
  /\ pc' = MainNext("present", current_planet, render_no)
  /\ UNCHANGED <<fbvars, shvars, asmvars, fragvars, current_planet, time,
                 vertex_arrays, rings_vertex_arrays, render_no>>

NextMain ==
  \/ Startup \/ ExitLoop \/ BeginFrame \/ OverflowPanic \/ ClearFrame \/ BuildUniforms
  \/ RenderCall \/ VertexStage \/ PrimitiveAssembly \/ Rasterize
  \/ FragmentStep \/ RenderReturn \/ Present

SpecMain == InitMain /\ [][NextMain]_vars

\* the screen position lies outside the framebuffer
OutsideFramebuffer(pos) ==
  \/ pos[1] < 0 \/ pos[2] < 0
  \/ pos[1] >= 2 * Width \/ pos[2] >= 2 * Height

\* C5: in render's fragment loop a fragment whose screen position is
\* outside the framebuffer (x or y below 0, x >= width or y >= height)
\* changes no entry of buffer or zbuffer.
C5_Step ==
  (/\ stage = "fragments" /\ frags_left' = frags_left - 1
   /\ lastFrag' # NoFrag
   /\ OutsideFramebuffer(lastFrag')) =>
    /\ framebuffer'.buffer = framebuffer.buffer
    /\ framebuffer'.zbuffer = framebuffer.zbuffer

C5_OutsideFragmentDropped == [][C5_Step]_vars

Count(ev, name) == Cardinality({k \in DOMAIN ev : ev[k] = name})

\* C9: in every loop iteration clear is called exactly once and before any
\* render call, and the buffer is presented only after all render calls of
\* the iteration have returned.
C9_FrameOrder ==
  LET ev == frame_events IN
  /\ Count(ev, "clear") <= 1
  /\ \A k \in DOMAIN ev :
       ev[k] = "render" => \E j \in 1 .. k - 1 : ev[j] = "clear"
  /\ \A k \in DOMAIN ev :
       ev[k] = "present" =>
         /\ k = Len(ev)
         /\ Count(ev, "clear") = 1
         /\ Count(ev, "render") = Count(ev, "render_done")
         /\ Count(ev, "render") = Len(RenderCalls(current_planet))

\* a frame with two render calls was presented with drawn pixels
C9_Witness ==
  /\ pc = "loop"
  /\ frame_events = <<"clear", "render", "render_done", "render",
                      "render_done", "present">>
  /\ \E i \in Pixels : framebuffer.zbuffer[i] # INFINITY

\* C11: the frame counter time is monotonically increasing over the whole
\* run: every change of time, for any number of frames, is to a strictly
\* greater value.
C11_TimeIncreases == [][time' # time => time' > time]_vars

(***************************************************************************)
(* Camera::new (src/camera.rs).  A Vec3 is a triple of integers; <<>> is   *)
(* the vector whose components are NaN, which normalize gives for the      *)
(* zero vector.  The arguments are those for which every normalize of the  *)
(* constructor has an integer result.                                      *)
(***************************************************************************)
MaxCoord == 2

IsNaNVec(v) == v = <<>>

VSub(a, b) ==
  IF IsNaNVec(a) \/ IsNaNVec(b) THEN <<>>
  ELSE <<a[1] - b[1], a[2] - b[2], a[3] - b[3]>>

cross(a, b) ==
  IF IsNaNVec(a) \/ IsNaNVec(b) THEN <<>>
  ELSE <<a[2] * b[3] - a[3] * b[2],
         a[3] * b[1] - a[1] * b[3],
         a[1] * b[2] - a[2] * b[1]>>

NormSquared(v) == v[1] * v[1] + v[2] * v[2] + v[3] * v[3]

\* the length of v is an integer that divides its components
ExactNorm(v) ==
  \/ IsNaNVec(v)
  \/ NormSquared(v) = 0
  \/ \E r \in 1 .. NormSquared(v) :
       /\ r * r = NormSquared(v)
       /\ \A k \in 1..3 : v[k] % r = 0

normalize(v) ==
  IF IsNaNVec(v) THEN <<>>
  ELSE IF NormSquared(v) = 0 THEN <<>>
  ELSE LET r == CHOOSE r \in 1 .. NormSquared(v) : r * r = NormSquared(v)
       IN <<v[1] \div r, v[2] \div r, v[3] \div r>>

Camera_new(eye, center, up_arg) ==
  LET forward == normalize(VSub(center, eye))
      right == normalize(cross(forward, up_arg))
      up == normalize(cross(right, forward))
  IN [eye |-> eye, center |-> center, up |-> up]

Coords == -MaxCoord .. MaxCoord

Points ==
  { <<x, y, z>> : x \in Coords, y \in Coords, z \in Coords }
  \cap { v \in Coords \X Coords \X Coords :
           Cardinality({k \in 1..3 : v[k] # 0}) <= 1 }

CameraInputs ==
  { in \in [eye : Points, center : Points, up : Coords \X Coords \X Coords] :
      LET d == VSub(in.center, in.eye) IN
      /\ ExactNorm(d)
      /\ ExactNorm(cross(normalize(d), in.up))
      /\ ExactNorm(cross(normalize(cross(normalize(d), in.up)), normalize(d))) }

InitCamera ==
  /\ FbInit /\ ShIdle /\ AsmIdle /\ MainIdle /\ OrdIdle
  /\ cam_in \in CameraInputs
  /\ camera = <<>>

CameraNew ==
  /\ cam_in # <<>> /\ camera = <<>>
  /\ camera' = Camera_new(cam_in.eye, cam_in.center, cam_in.up)
  /\ UNCHANGED <<cam_in, fbvars, shvars, asmvars, fragvars, mainvars, ordvars>>

NextCamera == CameraNew

SpecCamera == InitCamera /\ [][NextCamera]_vars

\* C12: Camera::new(eye, center, up) returns a camera whose eye, center and
\* up fields equal the three arguments; the vectors derived in the
\* constructor are not stored.
C12_FieldsAreArguments ==
  camera # <<>> =>
    /\ camera.eye = cam_in.eye
    /\ camera.center = cam_in.center
    /\ camera.up = cam_in.up

(***************************************************************************)
(* Specification SpecOrder: a set of in-bounds writes, each being          *)
(* set_current_color(c) followed by point(x, y, d) as in render's fragment *)
(* loop (src/main.rs, lines 150-151), issued in any order on a cleared     *)
(* framebuffer.                                                            *)
(***************************************************************************)
MaxWrites == 3

Writes ==
  [x : 0 .. Width - 1, y : 0 .. Height - 1, d : Depths, c : DrawColors]

RECURSIVE WriteSets(_)
WriteSets(k) ==
  IF k = 0 THEN {{}}
  ELSE LET smaller == WriteSets(k - 1)
       IN smaller \cup {S \cup {w} : S \in smaller, w \in Writes}

apply_write(fb, w) == point(set_current_color(fb, w.c), w.x, w.y, w.d)

\* the writes of S issued one after the other, in one fixed order
RECURSIVE InOrder(_, _)
InOrder(fb, S) ==
  IF S = {} THEN fb
  ELSE LET w == CHOOSE w \in S : TRUE
       IN InOrder(apply_write(fb, w), S \ {w})

InitOrder ==
  /\ framebuffer = clear(FramebufferNew)
  /\ lastOp = NoOp /\ calls = {}
  /\ ShIdle /\ AsmIdle /\ MainIdle /\ CamIdle
  /\ writes \in WriteSets(MaxWrites)
  /\ todo = writes

IssueWrite ==
  /\ \E w \in todo :
       /\ framebuffer' = apply_write(framebuffer, w)
       /\ todo' = todo \ {w}
  /\ UNCHANGED <<writes, lastOp, calls, shvars, asmvars, fragvars, mainvars,
                 camvars>>

NextOrder == IssueWrite

SpecOrder == InitOrder /\ [][NextOrder]_vars

\* f32 inequality: NaN differs from every value
FNe(a, b) == a = NAN \/ b = NAN \/ a # b

\* writes that hit the same pixel have pairwise distinct depths
DistinctDepths(S) ==
  \A w1, w2 \in S :
    (w1 # w2 /\ w1.x = w2.x /\ w1.y = w2.y) => FNe(w1.d, w2.d)

\* C13: from a cleared framebuffer, the final zbuffer of a finite set of
\* in-bounds writes is the same for every order of the writes, and so is
\* the final buffer when the writes that hit the same pixel have pairwise
\* distinct depths.
C13_OrderIndependent ==
  todo = {} =>
    LET ref == InOrder(clear(FramebufferNew), writes) IN
    /\ framebuffer.zbuffer = ref.zbuffer
    /\ DistinctDepths(writes) => framebuffer.buffer = ref.buffer

\* all writes issued, two of them on one pixel at different finite depths
\* and in different colours
C13_Witness ==
  /\ todo = {}
  /\ Cardinality(writes) = MaxWrites
  /\ DistinctDepths(writes)
  /\ \E w1, w2 \in writes :
       /\ w1.x = w2.x /\ w1.y = w2.y
       /\ FLt(w1.d, w2.d) /\ FLt(w2.d, INFINITY)
       /\ w1.c # w2.c
       /\ framebuffer.buffer[w1.y * Width + w1.x] = w1.c

====
